---- MODULE Spec2Model ----
(***************************************************************************)
(* A model of src/src/hamt.rs: the hash array mapped trie lookup           *)
(* (split_hash, HAMT::find), the HashMap wrapper and the HashSet algebra.  *)
(*                                                                         *)
(* The machine word is the 8-bit configuration of the source               *)
(* (LOG_UINT_SIZE = 3, hamt.rs:23-24), so uint::bits = 8 and               *)
(* uint::max_value = 255.  u64 hashes are natural numbers; the model only  *)
(* draws small ones, so no u64 operation wraps.                            *)
(*                                                                         *)
(* The file holds no insert, no iterator, no bucket_for_key and no         *)
(* HashMap equality; those are modelled from the specification and are     *)
(* marked so where they are defined.                                       *)
(***************************************************************************)
EXTENDS Integers, Sequences, FiniteSets, TLC

\* ---------------------------------------------------------------- bounds
\* keys are 0..MaxKey
MaxKey == 2
\* hash seeds of the maps of Spec are 0..MaxSeed
MaxSeed == 16
\* hash seeds of the sets of SpecSet are 0..MaxSetSeed
MaxSetSeed == 4
\* SpecSet builds two sets holding at most MaxSetTotal elements together
MaxSetTotal == 4
\* SpecSplit applies split_hash to the hashes 0..MaxSplitInput
MaxSplitInput == 300

\* ------------------------------------------------------- program constants
LOG_UINT_SIZE == 3

\* uint::bits
uint_bits == 2 ^ LOG_UINT_SIZE

\* uint::max_value
uint_max_value == (2 ^ uint_bits) - 1

\* the width of the hash type, u64
u64_bits == 64

Keys == 0 .. MaxKey
Seeds == 0 .. MaxSeed
SetSeeds == 0 .. MaxSetSeed
Conts == {"A", "B"}

\* the value a map of Spec stores for key k
Val(k) == k * 2

\* the only value of type (), stored by a HashSet's backing map
Unit == -1

AnyValue == {Val(k) : k \in Keys} \cup {Unit}

\* ------------------------------------------------------------- bit helpers
RECURSIVE BitAnd(_, _)
BitAnd(a, b) ==
  IF a = 0 \/ b = 0 THEN 0
  ELSE (a % 2) * (b % 2) + 2 * BitAnd(a \div 2, b \div 2)

\* bit i of word w
BitSet(w, i) == (w \div (2 ^ i)) % 2 = 1

\* number of set bits of w below bit i
PopBelow(w, i) == Cardinality({j \in 0 .. (i - 1) : BitSet(w, j)})

Min(S) == CHOOSE x \in S : \A y \in S : x <= y

\* ------------------------------------------------------------- split_hash
\* (h as uint & ((uint::max_value - 1) >> 1), h >> LOG_UINT_SIZE)
split_hash(h) ==
  << BitAnd(h % (uint_max_value + 1), (uint_max_value - 1) \div 2),
     h \div (2 ^ LOG_UINT_SIZE) >>

\* the keyed hash of the host, an external collaborator: an affine family
Hash(s, k) == (s \div 2) * k + (s % 2)

\* ------------------------------------------------------------------ nodes
Bucket(k, v) == [key |-> k, value |-> v]

Buckets(h, entries) ==
  [tag |-> "Buckets", h |-> h, buckets |-> entries, bitset |-> 0, branches |-> <<>>]

Branches(bitset, children) ==
  [tag |-> "Branches", h |-> 0, buckets |-> <<>>, bitset |-> bitset, branches |-> children]

\* a map that holds no node yet
EmptyRoot ==
  [tag |-> "Empty", h |-> 0, buckets |-> <<>>, bitset |-> 0, branches |-> <<>>]

\* ---------------------------------------------------------------- results
None == <<"None">>
Some(v) == <<"Some", v>>

\* task failure: an index outside the declared length of a fixed-size vector
Fault == <<"Fault">>

\* what a read outside the allocated part of a node's array can end in
Undefined == {None, Fault} \cup {Some(v) : v \in AnyValue}

VARIABLES root, size, seed, contents,
          pc, key, hash, current, partial, result, visited, probe,
          setOp, sh_in, sh_out

vars == << root, size, seed, contents,
           pc, key, hash, current, partial, result, visited, probe,
           setOp, sh_in, sh_out >>

\* ---------------------------------------------------------------- lookup
\* one turn of the loop of HAMT::find ends the search or goes on in a child
Ret(r) == [k |-> "ret", r |-> r, node |-> EmptyRoot, partial |-> 0]
Go(n, p) == [k |-> "go", r |-> None, node |-> n, partial |-> p]

\* Buckets (h, ref buckets) => return match h == hash { ... }.  The vector is
\* declared [Bucket<K,V>, ..uint::max_value] and the node stores no entry
\* count, so a scan that meets no equal key runs past the allocated entries.
find_bucket(node, ky, hsh) ==
  IF node.h = hsh
    THEN LET hits == {i \in 1 .. Len(node.buckets) : node.buckets[i].key = ky}
         IN IF hits # {} THEN {Some(node.buckets[Min(hits)].value)} ELSE Undefined
    ELSE {None}

\* bitset & (1u << partial) # 0.  A shift by uint::bits or more has no defined
\* result: the test can go either way.
bit_test(bitset, prt) ==
  IF prt < uint_bits THEN {BitAnd(bitset, 2 ^ prt) # 0} ELSE BOOLEAN

\* Branches (bitset, ref branches) => match bitset & (1u << partial) { ... }.
\* branches is declared [@HAMT<K,V>, ..uint::bits]: an index of uint::bits or
\* more fails the bounds check, an index inside the declared length and past
\* the allocated children reads whatever lies there.
find_child(node, prt) ==
  LET index == split_hash(prt)[1]
      p2 == split_hash(prt)[2]
  IN IF index >= uint_bits THEN {Ret(Fault)}
     ELSE IF index >= Len(node.branches) THEN {Ret(r) : r \in Undefined}
     ELSE {Go(node.branches[index + 1], p2)}

find_branch(node, prt) ==
  UNION { IF t THEN find_child(node, prt) ELSE {Ret(None)}
          : t \in bit_test(node.bitset, prt) }

find_step(cur, prt, ky, hsh) ==
  IF cur.tag = "Buckets" THEN {Ret(r) : r \in find_bucket(cur, ky, hsh)}
  ELSE find_branch(cur, prt)

RECURSIVE find_from(_, _, _, _)
find_from(cur, prt, ky, hsh) ==
  UNION { IF c.k = "ret" THEN {c.r} ELSE find_from(c.node, c.partial, ky, hsh)
          : c \in find_step(cur, prt, ky, hsh) }

\* HAMT::find(self, key, hash): every result the call can give
HAMT_find(node, ky, hsh) == find_from(node, hsh, ky, hsh)

\* ------------------------------------------- trie engine of the specification
\* the splitter of the specification: the low L bits, and the rest
chunk(hsh, depth) == (hsh \div (uint_bits ^ depth)) % uint_bits

InsertAt(s, i, e) == SubSeq(s, 1, i - 1) \o <<e>> \o SubSeq(s, i, Len(s))

\* two buckets of different hashes under one new Branch, one level deeper
\* while their chunks agree
RECURSIVE split_buckets(_, _, _)
split_buckets(old, new, depth) ==
  LET i1 == chunk(old.h, depth)
      i2 == chunk(new.h, depth)
  IN IF i1 = i2 THEN Branches(2 ^ i1, << split_buckets(old, new, depth + 1) >>)
     ELSE IF i1 < i2 THEN Branches(2 ^ i1 + 2 ^ i2, << old, new >>)
     ELSE Branches(2 ^ i1 + 2 ^ i2, << new, old >>)

\* insert(root, key, value, hash) -> (new_root, size_delta)
RECURSIVE insert_at(_, _, _, _, _)
insert_at(node, ky, v, hsh, depth) ==
  IF node.tag = "Empty"
    THEN [node |-> Buckets(hsh, << Bucket(ky, v) >>), delta |-> 1]
  ELSE IF node.tag = "Buckets"
    THEN IF node.h = hsh
           THEN LET hits == {i \in 1 .. Len(node.buckets) : node.buckets[i].key = ky}
                IN IF hits # {}
                     THEN [node |-> Buckets(hsh, [node.buckets EXCEPT ![Min(hits)] = Bucket(ky, v)]),
                           delta |-> 0]
                     ELSE [node |-> Buckets(hsh, Append(node.buckets, Bucket(ky, v))),
                           delta |-> 1]
           ELSE [node |-> split_buckets(node, Buckets(hsh, << Bucket(ky, v) >>), depth),
                 delta |-> 1]
  ELSE LET index == chunk(hsh, depth)
           pos == PopBelow(node.bitset, index) + 1
       IN IF ~BitSet(node.bitset, index)
            THEN [node |-> Branches(node.bitset + 2 ^ index,
                                    InsertAt(node.branches, pos, Buckets(hsh, << Bucket(ky, v) >>))),
                  delta |-> 1]
            ELSE LET sub == insert_at(node.branches[pos], ky, v, hsh, depth + 1)
                 IN [node |-> Branches(node.bitset, [node.branches EXCEPT ![pos] = sub.node]),
                     delta |-> sub.delta]

\* iterate(root): Branches in ascending bit order, Buckets in stored order
RECURSIVE iterate(_)
RECURSIVE iterate_children(_, _)
iterate_children(children, i) ==
  IF i > Len(children) THEN <<>>
  ELSE iterate(children[i]) \o iterate_children(children, i + 1)

iterate(node) ==
  IF node.tag = "Empty" THEN <<>>
  ELSE IF node.tag = "Buckets" THEN node.buckets
  ELSE iterate_children(node.branches, 1)

\* ---------------------------------------------------------------- HashMap
\* bucket_for_key(k) of the specification: hash k with the seed of the map
\* and look it up from the root; a map without a node holds nothing
bucket_for_key(c, k) ==
  IF root[c].tag = "Empty" THEN {None}
  ELSE HAMT_find(root[c], k, Hash(seed[c], k))

\* Map::find for HashMap: FoundEntry(idx) => Some(value), otherwise None
HashMap_find(c, k) ==
  {IF r[1] = "Some" THEN Some(r[2]) ELSE r : r \in bucket_for_key(c, k)}

\* Map::contains_key, the default method: find(k).is_some()
contains_key(c, k) ==
  {IF r[1] = "Some" THEN "true" ELSE IF r = None THEN "false" ELSE "fault"
   : r \in HashMap_find(c, k)}

\* Container::len for HashMap
len(c) == size[c]

\* ---------------------------------------------------------------- HashSet
Outcome(r, n) == [res |-> r, checks |-> n]

\* self.iter().all(|v| other.contains(v) == want): the results the call can
\* give, each with the number of contains calls it made
RECURSIVE all_contains(_, _, _, _)
all_contains(elems, i, other, want) ==
  IF i > Len(elems) THEN {Outcome("true", 0)}
  ELSE UNION { IF c = "fault" THEN {Outcome("fault", 1)}
               ELSE IF c # want THEN {Outcome("false", 1)}
               ELSE {Outcome(o.res, o.checks + 1)
                     : o \in all_contains(elems, i + 1, other, want)}
               : c \in contains_key(other, elems[i].key) }

\* HashSet::iter of the specification
set_iter(c) == iterate(root[c])

\* is_disjoint with the operands exchanged: it iterates over other and tests
\* membership in self
is_disjoint_over_other(self, other) == all_contains(set_iter(other), 1, self, "false")

\* self.iter().all(|v| !other.contains(v))
is_disjoint(self, other) == all_contains(set_iter(self), 1, other, "false")

\* self.iter().all(|v| other.contains(v))
is_subset(self, other) == all_contains(set_iter(self), 1, other, "true")

\* other.is_subset(self)
is_superset(self, other) == is_subset(other, self)

\* every entry of elems from position i on is found in other with an equal value
RECURSIVE all_equal(_, _, _)
all_equal(elems, i, other) ==
  IF i > Len(elems) THEN {"true"}
  ELSE UNION { IF r = Fault THEN {"fault"}
               ELSE IF r # Some(elems[i].value) THEN {"false"}
               ELSE all_equal(elems, i + 1, other)
               : r \in HashMap_find(other, elems[i].key) }

\* equality of two maps in the specification: the same size, and every key of
\* one maps to an equal value in the other
HashMap_eq(a, b) ==
  IF len(a) # len(b) THEN {"false"} ELSE all_equal(iterate(root[a]), 1, b)

HashMap_ne(a, b) ==
  {IF r = "true" THEN "false" ELSE IF r = "false" THEN "true" ELSE r : r \in HashMap_eq(a, b)}

\* Eq for HashSet: self.map == other.map, self.map != other.map
HashSet_eq(self, other) == {Outcome(r, 0) : r \in HashMap_eq(self, other)}
HashSet_ne(self, other) == {Outcome(r, 0) : r \in HashMap_ne(self, other)}

\* ------------------------------------------------------------ the machine
NoProbe == [at |-> "none", shift |-> 0, read |-> FALSE, index |-> 0, len |-> 0]
NoOp == [name |-> "none", recv |-> "A", arg |-> "A", res |-> "true", checks |-> 0]
NotSplit == << >>

\* insert(k, v) of a map: hash, insert into the trie, adopt the new root, add
\* the size delta
Insert(c, k, v) ==
  LET got == insert_at(root[c], k, v, Hash(seed[c], k), 0)
  IN /\ root' = [root EXCEPT ![c] = got.node]
     /\ size' = [size EXCEPT ![c] = @ + got.delta]
     /\ contents' = [contents EXCEPT ![c] = @ \cup {k}]
     /\ UNCHANGED seed

LookupIdle ==
  /\ pc' = "idle"
  /\ key' = 0
  /\ hash' = 0
  /\ current' = EmptyRoot
  /\ partial' = 0
  /\ result' = None
  /\ visited' = 0
  /\ probe' = NoProbe

\* the host inserts key k with its value into map A
MapInsert(k) ==
  /\ pc # "find"
  /\ Insert("A", k, Val(k))
  /\ LookupIdle
  /\ UNCHANGED << setOp, sh_in, sh_out >>

\* HashMap::find(k) is called on map A: hash the key, start at the root
FindStart(k) ==
  /\ pc # "find"
  /\ key' = k
  /\ hash' = Hash(seed["A"], k)
  /\ visited' = 0
  /\ probe' = NoProbe
  /\ IF root["A"].tag = "Empty"
       THEN /\ pc' = "done"
            /\ result' = None
            /\ current' = EmptyRoot
            /\ partial' = 0
       ELSE /\ pc' = "find"
            /\ result' = None
            /\ current' = root["A"]
            /\ partial' = Hash(seed["A"], k)
  /\ UNCHANGED << root, size, seed, contents, setOp, sh_in, sh_out >>

Land(c) ==
  IF c.k = "ret"
    THEN /\ pc' = "done"
         /\ result' = c.r
         /\ UNCHANGED << current, partial >>
    ELSE /\ pc' = "find"
         /\ current' = c.node
         /\ partial' = c.partial
         /\ UNCHANGED result

\* one turn of the loop of HAMT::find
FindStep ==
  /\ pc = "find"
  /\ IF current.tag = "Buckets"
       THEN /\ \E r \in find_bucket(current, key, hash) : Land(Ret(r))
            /\ probe' = [NoProbe EXCEPT !.at = "Buckets"]
            /\ UNCHANGED visited
       ELSE /\ \E t \in bit_test(current.bitset, partial) :
                 /\ \E c \in (IF t THEN find_child(current, partial) ELSE {Ret(None)}) : Land(c)
                 /\ probe' = [at |-> "Branches", shift |-> partial, read |-> t,
                              index |-> split_hash(partial)[1],
                              len |-> Len(current.branches)]
            /\ visited' = visited + 1
  /\ UNCHANGED << root, size, seed, contents, key, hash, setOp, sh_in, sh_out >>

\* seed s gives the keys pairwise different hashes
Injective(s) == \A j \in Keys, k \in Keys : Hash(s, j) = Hash(s, k) => j = k

\* after construction: empty containers, their seeds drawn from sa and sb, no
\* call made yet; inputs are the hashes the splitter can be given
Start(sa, sb, inputs) ==
  /\ root = [c \in Conts |-> EmptyRoot]
  /\ size = [c \in Conts |-> 0]
  /\ seed \in {f \in [Conts -> Seeds] : f["A"] \in sa /\ f["B"] \in sb}
  /\ contents = [c \in Conts |-> {}]
  /\ pc = "idle"
  /\ key = 0
  /\ hash = 0
  /\ current = EmptyRoot
  /\ partial = 0
  /\ result = None
  /\ visited = 0
  /\ probe = NoProbe
  /\ setOp = NoOp
  /\ sh_in \in inputs
  /\ sh_out = NotSplit

\* a map whose seed keeps the hashes of the keys apart
Init == Start({s \in Seeds : Injective(s)}, {0}, {0})

Next ==
  \/ \E k \in Keys : MapInsert(k)
  \/ \E k \in Keys : FindStart(k)
  \/ FindStep

Spec == Init /\ [][Next]_vars

\* a map of any seed, those under which keys collide included
InitAnySeed == Start(Seeds, {0}, {0})

SpecAnySeed == InitAnySeed /\ [][Next]_vars

\* ------------------------------------------------------------ the two sets
LookupVars == << pc, key, hash, current, partial, result, visited, probe >>

\* the host inserts element k into set c
SetInsert(c, k) ==
  /\ setOp = NoOp
  /\ size["A"] + size["B"] < MaxSetTotal
  /\ k \notin contents[c]
  /\ Insert(c, k, Unit)
  /\ UNCHANGED setOp
  /\ UNCHANGED << LookupVars, sh_in, sh_out >>

Call(name, a, b, outs) ==
  /\ setOp = NoOp
  /\ \E o \in outs :
       setOp' = [name |-> name, recv |-> a, arg |-> b, res |-> o.res, checks |-> o.checks]
  /\ UNCHANGED << root, size, seed, contents, LookupVars, sh_in, sh_out >>

IsDisjoint(a, b) == Call("is_disjoint", a, b, is_disjoint(a, b))
IsSubset(a, b) == Call("is_subset", a, b, is_subset(a, b))
IsSuperset(a, b) == Call("is_superset", a, b, is_superset(a, b))
SetEq(a, b) == Call("eq", a, b, HashSet_eq(a, b))
SetNe(a, b) == Call("ne", a, b, HashSet_ne(a, b))

InitSet == Start(SetSeeds, SetSeeds, {0})

\* the host has taken the answer of the last call
Return ==
  /\ setOp # NoOp
  /\ setOp' = NoOp
  /\ UNCHANGED << root, size, seed, contents, LookupVars, sh_in, sh_out >>

NextSet ==
  \/ \E c \in Conts, k \in Keys : SetInsert(c, k)
  \/ \E a \in Conts, b \in Conts : IsDisjoint(a, b)
  \/ \E a \in Conts, b \in Conts : IsSubset(a, b)
  \/ \E a \in Conts, b \in Conts : IsSuperset(a, b)
  \/ \E a \in Conts, b \in Conts : SetEq(a, b)
  \/ \E a \in Conts, b \in Conts : SetNe(a, b)
  \/ Return

SpecSet == InitSet /\ [][NextSet]_vars

\* two sets whose seeds keep the hashes of the keys apart
InitSetDistinct ==
  Start({s \in SetSeeds : Injective(s)}, {s \in SetSeeds : Injective(s)}, {0})

SpecSetDistinct == InitSetDistinct /\ [][NextSet]_vars

\* ------------------------------------------------------------- the splitter
\* split_hash is applied to the chosen hash
Split ==
  /\ sh_out = NotSplit
  /\ sh_out' = split_hash(sh_in)
  /\ UNCHANGED << root, size, seed, contents, LookupVars, setOp, sh_in >>

InitSplit == Start({0}, {0}, 0 .. MaxSplitInput)

NextSplit == Split

SpecSplit == InitSplit /\ [][NextSplit]_vars

\* ------------------------------------------------------------- the claims
\* ceil(64 / L): the Branch nodes a lookup can visit before the hash is used up
MaxDepth == (u64_bits + LOG_UINT_SIZE - 1) \div LOG_UINT_SIZE

Bool == {"true", "false"}

\* C1: after any inserts of distinct keys into the empty trie, a finished
\* lookup returns the value inserted for the key when the key was inserted and
\* none when it never was.
C1_RoundTrip ==
  pc = "done" =>
    result = (IF key \in contents["A"] THEN Some(Val(key)) ELSE None)

\* C2: split_hash(h) returns index = h & (branch_factor - 1), which lies in
\* 0 .. branch_factor - 1, and remaining = h >> L.
C2_SplitHash ==
  sh_out # NotSplit =>
    /\ sh_out[1] = BitAnd(sh_in, uint_bits - 1)
    /\ sh_out[1] \in 0 .. (uint_bits - 1)
    /\ sh_out[2] = sh_in \div (2 ^ LOG_UINT_SIZE)

\* C3: a lookup visits at most ceil(64 / L) Branch nodes, shifts by less than
\* the word width in every bitmap test, reads the children array only at a
\* position below the number of children, and ends in a value or none.
C3_LookupTotal ==
  /\ visited <= MaxDepth
  /\ probe.at = "Branches" =>
       /\ probe.shift < uint_bits
       /\ probe.read => probe.index < probe.len
  /\ pc = "done" => result # Fault

\* C7: HashMap::find(k) returns what HAMT::find returns on the root of the map
\* with the seeded hash of k, and returns None for a key that is not in the map.
C7_MapFind ==
  pc = "done" =>
    /\ root["A"].tag # "Empty" =>
         result \in HAMT_find(root["A"], key, Hash(seed["A"], key))
    /\ key \notin contents["A"] => result = None

\* C8: at a Branch the lookup tests bit number index = residual & (branch_factor - 1)
\* of the bitmap, returns none when it is unset, and otherwise goes on in the
\* child at the dense position PopBelow(bitmap, index) with residual >> L.
C8_BranchStep ==
  [][ (pc = "find" /\ current.tag = "Branches") =>
        LET index == BitAnd(partial, uint_bits - 1)
            remaining == partial \div (2 ^ LOG_UINT_SIZE)
        IN IF ~BitSet(current.bitset, index)
             THEN pc' = "done" /\ result' = None
             ELSE /\ pc' = "find"
                  /\ current' = current.branches[PopBelow(current.bitset, index) + 1]
                  /\ partial' = remaining ]_vars

\* C9: at a Bucket the lookup ends: none when the stored hash differs from the
\* full hash of the key, otherwise the value of the entry with the key, or none
\* when no entry has the key.
C9_BucketStep ==
  [][ (pc = "find" /\ current.tag = "Buckets") =>
        /\ pc' = "done"
        /\ result' =
             (IF current.h # hash THEN None
              ELSE LET hits == {i \in 1 .. Len(current.buckets) : current.buckets[i].key = key}
                   IN IF hits = {} THEN None
                      ELSE Some(current.buckets[Min(hits)].value)) ]_vars

\* C4: A.is_disjoint(B) answers, and answers true exactly when no x has
\* A.contains(x) and B.contains(x); B.is_disjoint(A) answers the same.
C4_Disjoint ==
  setOp.name = "is_disjoint" =>
    LET a == setOp.recv
        b == setOp.arg
    IN /\ setOp.res \in Bool
       /\ setOp.res = "true" =>
            ~ \E x \in Keys : contains_key(a, x) = {"true"} /\ contains_key(b, x) = {"true"}
       /\ setOp.res = "false" =>
            \E x \in Keys : "true" \in contains_key(a, x) /\ "true" \in contains_key(b, x)
       /\ setOp.res \in {o.res : o \in is_disjoint(b, a)}

\* C5: A.is_subset(B) answers, and answers true exactly when every element of
\* A is an element of B; A.is_superset(B) answers what B.is_subset(A) answers.
C5_Subset ==
  /\ setOp.name = "is_subset" =>
       /\ setOp.res \in Bool
       /\ setOp.res = "true" <=> contents[setOp.recv] \subseteq contents[setOp.arg]
  /\ setOp.name = "is_superset" =>
       setOp.res \in {o.res : o \in is_subset(setOp.arg, setOp.recv)}

\* C6: A == B answers, and answers true exactly when A.is_subset(B) and
\* B.is_subset(A) do; A != B answers the negation of A == B.
C6_EqIsMutualSubset ==
  LET a == setOp.recv
      b == setOp.arg
      ab == {o.res : o \in is_subset(a, b)}
      ba == {o.res : o \in is_subset(b, a)}
  IN /\ setOp.name = "eq" =>
          /\ setOp.res \in Bool
          /\ setOp.res = "true" => "true" \in ab /\ "true" \in ba
          /\ setOp.res = "false" => "false" \in (ab \cup ba)
     /\ setOp.name = "ne" =>
          /\ setOp.res \in Bool
          /\ setOp.res = "true" => "false" \in (ab \cup ba)
          /\ setOp.res = "false" => "true" \in ab /\ "true" \in ba

MinOf(m, n) == IF m <= n THEN m ELSE n

\* C10 as stated: a call A.is_disjoint(B) makes at most min(|A|, |B|) contains
\* checks.
C10_ChecksAtMostSmaller ==
  setOp.name = "is_disjoint" =>
    setOp.checks <= MinOf(len(setOp.recv), len(setOp.arg))

\* C10 as amended: a call A.is_disjoint(B) iterates over the receiver A: it
\* makes at most |A| contains checks, and exactly |A| when it answers true.
C10_ChecksOverReceiver ==
  setOp.name = "is_disjoint" =>
    /\ setOp.checks <= len(setOp.recv)
    /\ setOp.res = "true" => setOp.checks = len(setOp.recv)

\* C10: a call on a receiver larger than its non-empty argument answered true
\* after one check for each element of the receiver
C10_Witness ==
  /\ setOp.name = "is_disjoint"
  /\ setOp.res = "true"
  /\ len(setOp.arg) >= 1
  /\ len(setOp.recv) > len(setOp.arg)
  /\ setOp.checks = len(setOp.recv)

====
